---- MODULE Spec2Model ----
(***************************************************************************)
(* State-machine model of src/JC.PY: the VideoThread worker (run loop,     *)
(* process_frame, detect_objects) and the controller operations of         *)
(* VideoThread and App that act on it from the GUI thread.                 *)
(*                                                                         *)
(* Two execution contexts interleave: the worker thread (position wpc in   *)
(* VideoThread.run) and the GUI thread (position cpc inside one controller *)
(* operation at a time, "idle" between operations).  Each step is one      *)
(* statement (or one attribute read/write) of the source, so every         *)
(* interleaving the interpreter can produce between statements is a        *)
(* behaviour of the model.                                                 *)
(*                                                                         *)
(* Numbers: pixel coordinates coming out of the detector are floats; they  *)
(* are kept here in quarter pixels (v4 = 4 * v), so that y = y_center -    *)
(* height/2 and the truncation int(v) are computed as the code computes    *)
(* them.  model_conf and model_nms are kept in hundredths (the sliders     *)
(* deliver v/100).                                                         *)
(***************************************************************************)
EXTENDS Integers, Sequences, FiniteSets, TLC

VARIABLES
    \* ---- VideoThread fields (src/JC.PY:43-67) ----
    params,         \* self.params: configuration dictionary
    model,          \* self.model: "none" (None) or the stem of the loaded model
    model_path,     \* self.model_path
    mutex,          \* self.mutex: "free", "worker" or "controller" (the holder)
    source,         \* self.source
    running,        \* self.running
    pause,          \* self.pause
    cap,            \* self.cap: "none" (None), "open" or "closed" (not opened / released)
    frame_height,   \* self.frame_height
    total_count,    \* self.total_count
    counted_ids,    \* self.counted_ids
    \* ---- the capture device behind self.cap ----
    capPos,         \* number of frames already delivered since the stream was
                    \* opened or rewound (a video file ends after VideoLen frames)
    \* ---- worker thread: position and locals of run/process_frame/detect_objects ----
    wpc,            \* position in VideoThread.run
    frame,          \* frame returned by cap.read()
    kwargs,         \* conf/iou/imgsz evaluated for the model.track call
    results,        \* list of (box, track_id) returned by detect_objects
    idx,            \* index of the next element of results in the for loop
    current_count,  \* process_frame's current_count
    acc,            \* total_count as loaded by "self.total_count += current_count"
    wout,           \* signals emitted (and rewinds asked of the capture) by the
                    \* worker in the current loop iteration
    \* ---- GUI thread: position and locals of the controller operation ----
    cpc,            \* position inside the running controller operation
    carg,           \* its argument
    cfrom,          \* return positions of the operations that called it (a stack)
    cout,           \* signals / dialogs produced by the current (last) operation
    \* ---- history (observations of the run, read by the properties only) ----
    lastBox,        \* what the last iteration of process_frame's loop saw and did
                    \* (in the current frame)
    envs,           \* (frame_height, detect_bottom) pairs read so far in this frame
    snap,           \* self.params as it was when the current frame was read
    sess,           \* the counting done since the last reset_counters
    prev,           \* the counting of the session before that
    rec,            \* whether the sessions log their frames (fixed by Init)
    lastConf,       \* v of the last update_params('model_conf', v) that returned
    due,            \* lastConf when the current frame was read; 0 once a later
                    \* update of model_conf has been written
    again           \* whether the current operation is a stop called right after a stop

pvars == <<params, model, model_path, mutex, source, running, pause, cap,
           frame_height, total_count, counted_ids>>
dvars == <<capPos>>
wvars == <<wpc, frame, kwargs, results, idx, current_count, acc, wout>>
cvars == <<cpc, carg, cfrom, cout>>
hvars == <<lastBox, envs, snap, sess, prev, rec, lastConf, due, again>>
vars  == <<pvars, dvars, wvars, cvars, hvars>>

----------------------------------------------------------------------------
(* Bounds of the model *)

\* number of frames a video file holds before end-of-stream
VideoLen == 2
\* number of frames whose counting is logged per session
MaxLog == 2
\* largest total_count explored (a reset_counters that falls between the load
\* and the store of "total_count += current_count" is undone by the store, so
\* total_count has no bound of its own)
MaxCount == 3

----------------------------------------------------------------------------
(* Values *)

None == "none"

\* the sentinel detect_objects gives to detections without a track id
Untracked == -1

\* self.params as constructed by __init__ (model_conf, model_nms in hundredths)
DefaultParams ==
    [track_dist |-> 50, detect_bottom |-> 20, min_area |-> 50, max_area |-> 5000,
     model_conf |-> 50, model_nms |-> 40, model_size |-> 640,
     track_enabled |-> TRUE, track_buffer |-> 30, track_min_hits |-> 3]

ParamKeys == DOMAIN DefaultParams

\* self.available_cameras: the indices _get_available_cameras found usable
available_cameras == {0, 1}

Camera(i) == [kind |-> "camera", index |-> i]
File(stem, ext, exists) == [kind |-> "file", stem |-> stem, ext |-> ext, exists |-> exists]

\* str.lower() on the suffixes used in the model
Lower(ext) ==
    CASE ext = ".MP4" -> ".mp4"
      [] ext = ".PT"  -> ".pt"
      [] OTHER        -> ext

VideoSuffixes == {".mp4", ".avi", ".mkv"}
ModelSuffixes == {".pt", ".pth"}

\* a detection as the tracker reports it: centre y and height (quarter pixels)
\* and its track id
Det(yc4, h4, id) == [yc |-> yc4, h |-> h4, id |-> id]

\* a frame: the boxes the detector finds in it; tracked = FALSE when the
\* tracker returns no ids for the frame (result.boxes.id is None)
Frame(dets, tracked) == [dets |-> dets, tracked |-> tracked]

----------------------------------------------------------------------------
(* Pure helpers of process_frame / detect_objects *)

\* int(v) on a float: truncation toward zero (v in quarter pixels)
PyInt(v4) == IF v4 >= 0 THEN v4 \div 4 ELSE -((-v4) \div 4)

\* detect_objects: xywh (centre format) to [x, y, width, height]
XYWHtoBox(d) == [y |-> d.yc - d.h \div 2, h |-> d.h]

\* detect_objects: the (box, track_id) list built from the tracker's results
Detections(f) ==
    [i \in 1..Len(f.dets) |->
        [box |-> XYWHtoBox(f.dets[i]),
         id  |-> IF f.tracked THEN f.dets[i].id ELSE Untracked]]

\* process_frame: y + h after "x, y, w, h = [int(v) for v in box]"
BoxBottom(box) == PyInt(box.y) + PyInt(box.h)

\* process_frame: "(y + h) > (self.frame_height - self.params['detect_bottom'])"
TouchesBottom(box, fh, db) == BoxBottom(box) > fh - db

\* Countable without the memory of counted_ids
Countable_Forgetful(id, counted) == id # Untracked

\* Countable without the test of the sentinel
Countable_AnyId(id, counted) == id \notin counted

\* process_frame: "track_id != -1 and track_id not in self.counted_ids"
Countable(id, counted) == id # Untracked /\ id \notin counted

----------------------------------------------------------------------------
(* The capture device *)

IsCameraZero(s) == s.kind = "camera" /\ s.index = 0

\* int(self.cap.get(cv2.CAP_PROP_FRAME_HEIGHT)) of the opened stream
HeightOf(s) == IF s.kind = "camera" /\ s.index = 1 THEN 480 ELSE 600

\* cap.read(): a released capture and a file at its end return ret = False;
\* a camera keeps delivering frames
ReadOk == /\ cap = "open"
          /\ source.kind = "file" => capPos < VideoLen

----------------------------------------------------------------------------
(* History: what the properties read *)

NoBox == [seen |-> FALSE]

\* a session: clean when it began with total_count = 0 and the worker between
\* two frames from the first to the last statement of reset_counters (armed:
\* so far so, inside reset_counters); n frames accumulated, their counts
\* summed; times[id] the number of times id was counted; log, its first frames
FreshSession(clean, armed) ==
    [clean |-> clean, armed |-> armed, n |-> 0, sum |-> 0, times |-> {}, log |-> <<>>]

\* number of times id was counted in session s (times is a set of <<id, n>>)
TimesCounted(s, id) ==
    IF \E e \in s.times : e[1] = id
    THEN (CHOOSE e \in s.times : e[1] = id)[2]
    ELSE 0

CountOnce(s, id) ==
    [s EXCEPT !.times = {e \in s.times : e[1] # id} \cup {<<id, TimesCounted(s, id) + 1>>}]

\* a frame has been accumulated: n saturates at MaxLog, and only the first
\* MaxLog frames of a clean session are logged
LogFrame(s, entry) ==
    [s EXCEPT !.n = IF s.n < MaxLog THEN s.n + 1 ELSE s.n,
              !.sum = s.sum + entry.count,
              !.log = IF rec /\ s.clean /\ s.n < MaxLog
                      THEN Append(s.log, entry) ELSE s.log]

\* what is kept of a session once the next one begins
Kept(s) == IF s.clean THEN [s EXCEPT !.times = {}] ELSE FreshSession(FALSE, FALSE)

\* the worker is between a successful cap.read() and the end of
\* "self.total_count += current_count"
MidFrame == wpc \in {"detect", "conf", "nms", "size", "track", "box", "acc_load", "acc_store"}

----------------------------------------------------------------------------
(* Worker thread: VideoThread.run *)

\* the except clause written outside the "while True" loop
RunExcept_Break ==
    /\ wout' = Append(wout, "error")
    /\ wpc' = "returned"

\* the except clause of run: report, then msleep(20) and the next iteration
RunExcept ==
    /\ wout' = Append(wout, "error")
    /\ wpc' = "lock"

\* self.mutex.lock()
run_lock ==
    /\ wpc = "lock"
    /\ mutex = "free"
    /\ mutex' = "worker"
    /\ wpc' = "check"
    /\ wout' = <<>>
    /\ UNCHANGED <<params, model, model_path, source, running, pause, cap,
                   frame_height, total_count, counted_ids>>
    /\ UNCHANGED <<frame, kwargs, results, idx, current_count, acc>>
    /\ UNCHANGED <<dvars, cvars, hvars>>

\* if not self.running: self.condition.wait(self.mutex)
\* in two steps: the test of self.running, then (at "sleep") the call of
\* wait, which releases the mutex and blocks until a wakeAll
run_check ==
    /\ wpc \in {"check", "sleep"}
    /\ IF wpc = "sleep"
       THEN mutex' = "free" /\ wpc' = "wait"
       ELSE mutex' = mutex /\ wpc' = IF ~running THEN "sleep" ELSE "unlock"
    /\ UNCHANGED <<params, model, model_path, source, running, pause, cap,
                   frame_height, total_count, counted_ids>>
    /\ UNCHANGED <<frame, kwargs, results, idx, current_count, acc, wout>>
    /\ UNCHANGED <<dvars, cvars, hvars>>

\* condition.wait returning: woken, it takes the mutex again
run_woken ==
    /\ wpc = "woken"
    /\ mutex = "free"
    /\ mutex' = "worker"
    /\ wpc' = "unlock"
    /\ UNCHANGED <<params, model, model_path, source, running, pause, cap,
                   frame_height, total_count, counted_ids>>
    /\ UNCHANGED <<frame, kwargs, results, idx, current_count, acc, wout>>
    /\ UNCHANGED <<dvars, cvars, hvars>>

\* self.mutex.unlock()
run_unlock ==
    /\ wpc = "unlock"
    /\ mutex' = "free"
    /\ wpc' = "gate"
    /\ UNCHANGED <<params, model, model_path, source, running, pause, cap,
                   frame_height, total_count, counted_ids>>
    /\ UNCHANGED <<frame, kwargs, results, idx, current_count, acc, wout>>
    /\ UNCHANGED <<dvars, cvars, hvars>>

\* if self.pause or not self.cap or not self.cap.isOpened(): msleep(50); continue
run_gate ==
    /\ wpc = "gate"
    /\ wpc' = IF pause \/ cap = None \/ cap # "open" THEN "lock" ELSE "read"
    /\ UNCHANGED <<pvars, dvars, cvars, hvars>>
    /\ UNCHANGED <<frame, kwargs, results, idx, current_count, acc, wout>>

\* ret, frame = self.cap.read(), f being the frame the device holds; on
\* "not ret": rewind unless source == 0 (the call of cap.set is noted in wout
\* as "rewind"), emit finished_signal, continue
run_read(f) ==
    /\ wpc = "read"
    /\ IF ReadOk
       THEN /\ frame' = f
            /\ capPos' = IF source.kind = "file" THEN capPos + 1 ELSE capPos
            /\ wpc' = "detect"
            /\ envs' = <<>>
            /\ snap' = params
            /\ due' = lastConf
            /\ UNCHANGED wout
       ELSE /\ capPos' = IF ~IsCameraZero(source) /\ cap = "open" THEN 0 ELSE capPos
            /\ wout' = wout \o (IF ~IsCameraZero(source) THEN <<"rewind">> ELSE <<>>)
                             \o <<"finished">>
            /\ wpc' = "lock"
            /\ UNCHANGED <<frame, envs, snap, due>>
    /\ UNCHANGED <<pvars, cvars>>
    /\ UNCHANGED <<kwargs, results, idx, current_count, acc>>
    /\ UNCHANGED <<lastBox, sess, prev, rec, lastConf, again>>

----------------------------------------------------------------------------
(* Worker thread: process_frame and detect_objects *)

\* process_frame with nothing (left) to iterate: "return frame, current_count"
AfterDetect(res) == IF Len(res) = 0 THEN "acc_load" ELSE "box"

\* detect_objects: "if not self.model: return []"; reading the attribute
\* while it is deleted raises AttributeError, which run catches
detect_objects_model ==
    /\ wpc = "detect"
    /\ IF model = "deleted"
       THEN RunExcept /\ UNCHANGED <<results, idx, current_count>>
       ELSE IF model = None
       THEN /\ results' = <<>>
            /\ idx' = 1
            /\ current_count' = 0
            /\ wpc' = AfterDetect(<<>>)
            /\ UNCHANGED wout
       ELSE /\ wpc' = "conf"
            /\ UNCHANGED <<results, idx, current_count, wout>>
    /\ UNCHANGED <<pvars, dvars, cvars, hvars>>
    /\ UNCHANGED <<frame, kwargs, acc>>

\* the except clause of detect_objects: report and return []
DetectExcept ==
    /\ wout' = Append(wout, "error")
    /\ results' = <<>>
    /\ idx' = 1
    /\ current_count' = 0
    /\ wpc' = AfterDetect(<<>>)

\* self.model.track(... conf=self.params['model_conf'], : the attribute
\* lookup on self.model, then the first keyword argument
detect_objects_conf ==
    /\ wpc = "conf"
    /\ IF model \in {None, "deleted"}
       THEN DetectExcept /\ UNCHANGED kwargs
       ELSE /\ kwargs' = [kwargs EXCEPT !.conf = params.model_conf]
            /\ wpc' = "nms"
            /\ UNCHANGED <<results, idx, current_count, wout>>
    /\ UNCHANGED <<pvars, dvars, cvars, hvars>>
    /\ UNCHANGED <<frame, acc>>

\* iou=self.params['model_nms'],
detect_objects_nms ==
    /\ wpc = "nms"
    /\ kwargs' = [kwargs EXCEPT !.iou = params.model_nms]
    /\ wpc' = "size"
    /\ UNCHANGED <<pvars, dvars, cvars, hvars>>
    /\ UNCHANGED <<frame, results, idx, current_count, acc, wout>>

\* imgsz=self.params['model_size'],
detect_objects_size ==
    /\ wpc = "size"
    /\ kwargs' = [kwargs EXCEPT !.imgsz = params.model_size]
    /\ wpc' = "track"
    /\ UNCHANGED <<pvars, dvars, cvars, hvars>>
    /\ UNCHANGED <<frame, results, idx, current_count, acc, wout>>

\* the call of model.track and the conversion of its results; the call may
\* raise (caught in detect_objects)
detect_objects_track(raises) ==
    /\ wpc = "track"
    /\ IF raises
       THEN DetectExcept
       ELSE /\ results' = Detections(frame)
            /\ idx' = 1
            /\ current_count' = 0
            /\ wpc' = AfterDetect(Detections(frame))
            /\ UNCHANGED wout
    /\ UNCHANGED <<pvars, dvars, cvars, hvars>>
    /\ UNCHANGED <<frame, kwargs, acc>>

\* one iteration of "for (box, track_id) in results"
process_frame_box ==
    /\ wpc = "box"
    /\ LET d   == results[idx]
           fh  == frame_height
           db  == params.detect_bottom
           hit == TouchesBottom(d.box, fh, db) /\ Countable(d.id, counted_ids)
       IN  /\ current_count' = IF hit THEN current_count + 1 ELSE current_count
           /\ counted_ids' = IF hit THEN counted_ids \cup {d.id} ELSE counted_ids
           /\ lastBox' = [seen |-> TRUE, id |-> d.id, bottom4 |-> d.box.y + d.box.h,
                          line |-> fh - db, was |-> d.id \in counted_ids,
                          counted |-> hit]
           /\ envs' = Append(envs, <<fh, db>>)
           /\ sess' = IF hit THEN CountOnce(sess, d.id) ELSE sess
    /\ idx' = idx + 1
    /\ wpc' = IF idx = Len(results) THEN "acc_load" ELSE "box"
    /\ UNCHANGED <<params, model, model_path, mutex, source, running, pause, cap,
                   frame_height, total_count>>
    /\ UNCHANGED <<dvars, cvars>>
    /\ UNCHANGED <<frame, kwargs, results, acc, wout>>
    /\ UNCHANGED <<snap, prev, rec, lastConf, due, again>>

\* self.total_count += current_count: the load ...
run_accumulate_load ==
    /\ wpc = "acc_load"
    /\ acc' = total_count
    /\ wpc' = "acc_store"
    /\ UNCHANGED <<pvars, dvars, cvars, hvars>>
    /\ UNCHANGED <<frame, kwargs, results, idx, current_count, wout>>

\* "=" written for "+="
Accumulated_Overwritten(loaded, count) == count

\* the sum stored by "self.total_count += current_count"
Accumulated(loaded, count) == loaded + count

\* ... and the store
run_accumulate_store ==
    /\ wpc = "acc_store"
    /\ Accumulated(acc, current_count) <= MaxCount
    /\ total_count' = Accumulated(acc, current_count)
    /\ sess' = LogFrame(sess, [results |-> results, envs |-> envs,
                               count |-> current_count])
    /\ wpc' = "emit"
    /\ UNCHANGED <<params, model, model_path, mutex, source, running, pause, cap,
                   frame_height, counted_ids>>
    /\ UNCHANGED <<dvars, cvars>>
    /\ UNCHANGED <<frame, kwargs, results, idx, current_count, acc, wout>>
    /\ UNCHANGED <<lastBox, envs, snap, prev, rec, lastConf, due, again>>

\* the locals of an iteration of run, dead once it ends
NoFrame == [dets |-> <<>>, tracked |-> FALSE]
NoKwargs == [conf |-> 0, iou |-> 0, imgsz |-> 0]

\* change_pixmap.emit, update_count.emit(self.total_count, current_count,
\* elapsed), then msleep(20) and the next iteration
run_emit ==
    /\ wpc = "emit"
    /\ wout' = Append(wout, "update_count")
    /\ wpc' = "lock"
    /\ frame' = NoFrame
    /\ kwargs' = NoKwargs
    /\ results' = <<>>
    /\ idx' = 1
    /\ current_count' = 0
    /\ acc' = 0
    /\ envs' = <<>>
    /\ lastBox' = NoBox
    /\ snap' = DefaultParams
    /\ due' = 0
    /\ UNCHANGED <<pvars, dvars, cvars>>
    /\ UNCHANGED <<sess, prev, rec, lastConf, again>>

\* the worker thread, the device delivering frames out of the set frames
Worker(frames) ==
    \/ run_lock
    \/ run_check
    \/ run_woken
    \/ run_unlock
    \/ run_gate
    \/ \E f \in frames : run_read(f)
    \/ detect_objects_model
    \/ detect_objects_conf
    \/ detect_objects_nms
    \/ detect_objects_size
    \/ \E raises \in BOOLEAN : detect_objects_track(raises)
    \/ process_frame_box
    \/ run_accumulate_load
    \/ run_accumulate_store
    \/ run_emit

----------------------------------------------------------------------------
(* GUI thread: calling and returning *)

\* a controller operation is called from the event loop
Call(op, arg, first) ==
    /\ cpc = "idle"
    /\ cpc' = first
    /\ carg' = [op |-> op, arg |-> arg]
    /\ cfrom' = <<>>
    /\ cout' = <<>>
    /\ again' = (op = "stop" /\ carg.op = "stop")

\* the running operation returns: to its caller, or to the event loop
Return(emitted) ==
    /\ cout' = cout \o emitted
    /\ IF cfrom = <<>>
       THEN /\ cpc' = "idle"
            /\ UNCHANGED cfrom
       ELSE /\ cpc' = Head(cfrom)
            /\ cfrom' = Tail(cfrom)

----------------------------------------------------------------------------
(* VideoThread.reset_counters *)

\* the clear() forgotten
ClearedIds_Kept == counted_ids

\* what "self.counted_ids.clear()" leaves in the set
ClearedIds == {}

\* with QMutexLocker(self.mutex): self.total_count = 0
reset_counters_total ==
    /\ cpc = "rc_total"
    /\ mutex = "free"
    /\ mutex' = "controller"
    /\ total_count' = 0
    /\ prev' = IF rec THEN Kept(sess) ELSE prev
    /\ sess' = FreshSession(FALSE, ~MidFrame)
    /\ cpc' = "rc_ids"
    /\ UNCHANGED <<params, model, model_path, source, running, pause, cap,
                   frame_height, counted_ids>>
    /\ UNCHANGED <<dvars, wvars>>
    /\ UNCHANGED <<carg, cfrom, cout>>
    /\ UNCHANGED <<lastBox, envs, snap, rec, lastConf, due, again>>

\* self.counted_ids.clear(); self.tracked_objects = {}; self.next_id = 1
\* (tracked_objects and next_id are written here and read nowhere), and the
\* locker releases the mutex
reset_counters_ids ==
    /\ cpc = "rc_ids"
    /\ counted_ids' = ClearedIds
    /\ mutex' = "free"
    /\ sess' = [sess EXCEPT !.clean = sess.armed /\ ~MidFrame /\ sess.n = 0
                                      /\ total_count = 0,
                            !.times = {}]
    /\ Return(<<>>)
    /\ UNCHANGED <<params, model, model_path, source, running, pause, cap,
                   frame_height, total_count>>
    /\ UNCHANGED <<dvars, wvars>>
    /\ UNCHANGED <<carg>>
    /\ UNCHANGED <<lastBox, envs, snap, prev, rec, lastConf, due, again>>

reset_counters ==
    /\ Call("reset_counters", <<>>, "rc_total")
    /\ UNCHANGED <<pvars, dvars, wvars>>
    /\ UNCHANGED <<lastBox, envs, snap, sess, prev, rec, lastConf, due>>

----------------------------------------------------------------------------
(* VideoThread.update_params *)

\* the assignment without the "if param_name in self.params"
UpdatedParams_AnyKey(name, value) ==
    [k \in DOMAIN params \cup {name} |-> IF k = name THEN value ELSE params[k]]

\* the write going to a copy of the dictionary
UpdatedParams_Lost(name, value) == params

\* "if param_name in self.params: self.params[param_name] = value"
UpdatedParams(name, value) ==
    IF name \in DOMAIN params THEN [params EXCEPT ![name] = value] ELSE params

\* with QMutexLocker(self.mutex):
update_params_lock ==
    /\ cpc = "up_lock"
    /\ mutex = "free"
    /\ mutex' = "controller"
    /\ cpc' = "up_write"
    /\ UNCHANGED <<params, model, model_path, source, running, pause, cap,
                   frame_height, total_count, counted_ids>>
    /\ UNCHANGED <<dvars, wvars, hvars>>
    /\ UNCHANGED <<carg, cfrom, cout>>

\* the body, and the locker releases the mutex
update_params_write ==
    /\ cpc = "up_write"
    /\ params' = UpdatedParams(carg.arg[1], carg.arg[2])
    /\ mutex' = "free"
    /\ Return(IF carg.arg[1] \in DOMAIN params THEN <<"params_updated">> ELSE <<>>)
    /\ IF carg.arg[1] = "model_conf"
       THEN lastConf' = carg.arg[2] /\ due' = 0
       ELSE UNCHANGED <<lastConf, due>>
    /\ UNCHANGED <<model, model_path, source, running, pause, cap,
                   frame_height, total_count, counted_ids>>
    /\ UNCHANGED <<dvars, wvars>>
    /\ UNCHANGED <<carg>>
    /\ UNCHANGED <<lastBox, envs, snap, sess, prev, rec, again>>

update_params(name, value) ==
    /\ Call("update_params", <<name, value>>, "up_lock")
    /\ UNCHANGED <<pvars, dvars, wvars>>
    /\ UNCHANGED <<lastBox, envs, snap, sess, prev, rec, lastConf, due>>

----------------------------------------------------------------------------
(* VideoThread.stop *)

\* stop_flags without "self.pause = False"
stop_flags_PauseKept ==
    /\ cpc = "st_flags"
    /\ mutex = "free"
    /\ mutex' = "controller"
    /\ running' = FALSE
    /\ cpc' = "st_cap"
    /\ UNCHANGED <<params, model, model_path, source, pause, cap,
                   frame_height, total_count, counted_ids>>
    /\ UNCHANGED <<dvars, wvars, hvars>>
    /\ UNCHANGED <<carg, cfrom, cout>>

\* with QMutexLocker(self.mutex): self.running = False; self.pause = False
stop_flags ==
    /\ cpc = "st_flags"
    /\ mutex = "free"
    /\ mutex' = "controller"
    /\ running' = FALSE
    /\ pause' = FALSE
    /\ cpc' = "st_cap"
    /\ UNCHANGED <<params, model, model_path, source, cap,
                   frame_height, total_count, counted_ids>>
    /\ UNCHANGED <<dvars, wvars, hvars>>
    /\ UNCHANGED <<carg, cfrom, cout>>

\* stop_cap without the release of the capture
stop_cap_Kept ==
    /\ cpc = "st_cap"
    /\ cpc' = "st_del"
    /\ UNCHANGED <<pvars, dvars, wvars, hvars>>
    /\ UNCHANGED <<carg, cfrom, cout>>

\* if self.cap and self.cap.isOpened(): self.cap.release()
stop_cap ==
    /\ cpc = "st_cap"
    /\ cap' = IF cap = "open" THEN "closed" ELSE cap
    /\ cpc' = "st_del"
    /\ UNCHANGED <<params, model, model_path, mutex, source, running, pause,
                   frame_height, total_count, counted_ids>>
    /\ UNCHANGED <<dvars, wvars, hvars>>
    /\ UNCHANGED <<carg, cfrom, cout>>

\* if self.model: del self.model      (else: the end of stop)
stop_del ==
    /\ cpc = "st_del"
    /\ IF model # None
       THEN /\ model' = "deleted"
            /\ cpc' = "st_none"
            /\ UNCHANGED <<mutex, cfrom, cout>>
       ELSE /\ mutex' = "free"
            /\ Return(<<>>)
            /\ UNCHANGED model
    /\ UNCHANGED <<params, model_path, source, running, pause, cap,
                   frame_height, total_count, counted_ids>>
    /\ UNCHANGED <<dvars, wvars>>
    /\ UNCHANGED <<carg>>
    /\ UNCHANGED <<lastBox, envs, snap, sess, prev, rec, lastConf, due, again>>

\* self.model = None; torch.cuda.empty_cache(); self.quit(); the locker
\* releases the mutex
stop_none ==
    /\ cpc = "st_none"
    /\ model' = None
    /\ mutex' = "free"
    /\ Return(<<>>)
    /\ UNCHANGED <<params, model_path, source, running, pause, cap,
                   frame_height, total_count, counted_ids>>
    /\ UNCHANGED <<dvars, wvars>>
    /\ UNCHANGED <<carg>>
    /\ UNCHANGED <<lastBox, envs, snap, sess, prev, rec, lastConf, due, again>>

stop ==
    /\ Call("stop", <<>>, "st_flags")
    /\ UNCHANGED <<pvars, dvars, wvars>>
    /\ UNCHANGED <<lastBox, envs, snap, sess, prev, rec, lastConf, due>>

----------------------------------------------------------------------------
(* VideoThread.load_model *)

ModelFile(stem, ext, exists, imgsz) ==
    [stem |-> stem, ext |-> ext, exists |-> exists, imgsz |-> imgsz]

\* what load_model's except clause publishes
LoadFailed == <<"error", "model_loaded(False)">>

\* if self.model: del self.model
load_model_del ==
    /\ cpc = "lm_del"
    /\ IF model # None
       THEN model' = "deleted" /\ cpc' = "lm_none"
       ELSE model' = model /\ cpc' = "lm_check"
    /\ UNCHANGED <<params, model_path, mutex, source, running, pause, cap,
                   frame_height, total_count, counted_ids>>
    /\ UNCHANGED <<dvars, wvars, hvars>>
    /\ UNCHANGED <<carg, cfrom, cout>>

\* self.model = None; torch.cuda.empty_cache()
load_model_none ==
    /\ cpc = "lm_none"
    /\ model' = None
    /\ cpc' = "lm_check"
    /\ UNCHANGED <<params, model_path, mutex, source, running, pause, cap,
                   frame_height, total_count, counted_ids>>
    /\ UNCHANGED <<dvars, wvars, hvars>>
    /\ UNCHANGED <<carg, cfrom, cout>>

\* the two checks of the path, then self.model = YOLO(model_path).to(device),
\* which may raise
load_model_check(loads) ==
    /\ cpc = "lm_check"
    /\ LET p == carg.arg
       IN  IF ~p.exists \/ Lower(p.ext) \notin ModelSuffixes \/ ~loads
           THEN Return(LoadFailed) /\ UNCHANGED model
           ELSE /\ model' = p.stem
                /\ cpc' = "lm_fuse"
                /\ UNCHANGED <<cfrom, cout>>
    /\ UNCHANGED <<params, model_path, mutex, source, running, pause, cap,
                   frame_height, total_count, counted_ids>>
    /\ UNCHANGED <<dvars, wvars>>
    /\ UNCHANGED <<carg>>
    /\ UNCHANGED <<lastBox, envs, snap, sess, prev, rec, lastConf, due, again>>

\* self.model.fuse(), which may raise; then params['model_size'], model_path
\* and model_loaded.emit(True)
load_model_fuse(fuses) ==
    /\ cpc = "lm_fuse"
    /\ IF fuses
       THEN /\ params' = [params EXCEPT !.model_size = carg.arg.imgsz]
            /\ model_path' = carg.arg
            /\ Return(<<"model_loaded(True)">>)
       ELSE /\ Return(LoadFailed)
            /\ UNCHANGED <<params, model_path>>
    /\ UNCHANGED <<model, mutex, source, running, pause, cap,
                   frame_height, total_count, counted_ids>>
    /\ UNCHANGED <<dvars, wvars>>
    /\ UNCHANGED <<carg>>
    /\ UNCHANGED <<lastBox, envs, snap, sess, prev, rec, lastConf, due, again>>

load_model(p) ==
    /\ Call("load_model", p, "lm_del")
    /\ UNCHANGED <<pvars, dvars, wvars>>
    /\ UNCHANGED <<lastBox, envs, snap, sess, prev, rec, lastConf, due>>

----------------------------------------------------------------------------
(* VideoThread.set_source *)

\* the checks of set_source on its argument
ValidSource(s) ==
    IF s.kind = "camera"
    THEN s.index \in available_cameras
    ELSE s.exists /\ Lower(s.ext) \in VideoSuffixes

\* if self.cap and self.cap.isOpened(): self.cap.release()
set_source_release ==
    /\ cpc = "ss_release"
    /\ cap' = IF cap = "open" THEN "closed" ELSE cap
    /\ cpc' = "ss_source"
    /\ UNCHANGED <<params, model, model_path, mutex, source, running, pause,
                   frame_height, total_count, counted_ids>>
    /\ UNCHANGED <<dvars, wvars, hvars>>
    /\ UNCHANGED <<carg, cfrom, cout>>

\* self.source = source, then the checks (raise: the except clause reports)
set_source_source ==
    /\ cpc = "ss_source"
    /\ source' = carg.arg
    /\ IF ValidSource(carg.arg)
       THEN cpc' = "ss_open" /\ UNCHANGED <<cfrom, cout>>
       ELSE Return(<<"error">>)
    /\ UNCHANGED <<params, model, model_path, mutex, running, pause, cap,
                   frame_height, total_count, counted_ids>>
    /\ UNCHANGED <<dvars, wvars>>
    /\ UNCHANGED <<carg>>
    /\ UNCHANGED <<lastBox, envs, snap, sess, prev, rec, lastConf, due, again>>

\* self.cap = cv2.VideoCapture(self.source); if not self.cap.isOpened(): raise
set_source_open(opens) ==
    /\ cpc = "ss_open"
    /\ IF opens
       THEN /\ cap' = "open"
            /\ capPos' = 0
            /\ cpc' = "ss_height"
            /\ UNCHANGED <<cfrom, cout>>
       ELSE /\ cap' = "closed"
            /\ Return(<<"error">>)
            /\ UNCHANGED capPos
    /\ UNCHANGED <<params, model, model_path, mutex, source, running, pause,
                   frame_height, total_count, counted_ids>>
    /\ UNCHANGED <<wvars>>
    /\ UNCHANGED <<carg>>
    /\ UNCHANGED <<lastBox, envs, snap, sess, prev, rec, lastConf, due, again>>

\* self.frame_height = int(self.cap.get(cv2.CAP_PROP_FRAME_HEIGHT)), then
\* the call of self.reset_counters()
set_source_height ==
    /\ cpc = "ss_height"
    /\ frame_height' = HeightOf(source)
    /\ cpc' = "rc_total"
    /\ cfrom' = <<"ss_done">> \o cfrom
    /\ UNCHANGED <<params, model, model_path, mutex, source, running, pause, cap,
                   total_count, counted_ids>>
    /\ UNCHANGED <<dvars, wvars, hvars>>
    /\ UNCHANGED <<carg, cout>>

\* reset_counters has returned; set_source returns
set_source_done ==
    /\ cpc = "ss_done"
    /\ Return(<<>>)
    /\ UNCHANGED <<pvars, dvars, wvars>>
    /\ UNCHANGED <<carg>>
    /\ UNCHANGED <<lastBox, envs, snap, sess, prev, rec, lastConf, due, again>>

set_source(s) ==
    /\ Call("set_source", s, "ss_release")
    /\ UNCHANGED <<pvars, dvars, wvars>>
    /\ UNCHANGED <<lastBox, envs, snap, sess, prev, rec, lastConf, due>>

----------------------------------------------------------------------------
(* App.start_video, App.pause_video *)

\* the source chosen in the window when neither a camera nor a path is chosen
Nothing == [kind |-> "nothing"]

\* "if not self.video_thread.model: warning; return", then the choice of the
\* source (raise ValueError when there is none) and the call of set_source
start_video_check ==
    /\ cpc = "sv_check"
    /\ IF model = None
       THEN Return(<<"warning">>)
       ELSE IF carg.arg = Nothing
       THEN Return(<<"error">>)
       ELSE /\ cpc' = "ss_release"
            /\ cfrom' = <<"sv_running">>
            /\ UNCHANGED <<cout>>
    /\ UNCHANGED <<pvars, dvars, wvars>>
    /\ UNCHANGED <<carg>>
    /\ UNCHANGED <<lastBox, envs, snap, sess, prev, rec, lastConf, due, again>>

\* self.video_thread.running = True
start_video_running ==
    /\ cpc = "sv_running"
    /\ running' = TRUE
    /\ cpc' = "sv_pause"
    /\ UNCHANGED <<params, model, model_path, mutex, source, pause, cap,
                   frame_height, total_count, counted_ids>>
    /\ UNCHANGED <<dvars, wvars, hvars>>
    /\ UNCHANGED <<carg, cfrom, cout>>

\* self.video_thread.pause = False
start_video_pause ==
    /\ cpc = "sv_pause"
    /\ pause' = FALSE
    /\ cpc' = "sv_wake"
    /\ UNCHANGED <<params, model, model_path, mutex, source, running, cap,
                   frame_height, total_count, counted_ids>>
    /\ UNCHANGED <<dvars, wvars, hvars>>
    /\ UNCHANGED <<carg, cfrom, cout>>

\* self.video_thread.condition.wakeAll(): a worker inside wait is woken
start_video_wake ==
    /\ cpc = "sv_wake"
    /\ wpc' = IF wpc = "wait" THEN "woken" ELSE wpc
    /\ Return(<<>>)
    /\ UNCHANGED <<pvars, dvars>>
    /\ UNCHANGED <<frame, kwargs, results, idx, current_count, acc, wout>>
    /\ UNCHANGED <<carg>>
    /\ UNCHANGED <<lastBox, envs, snap, sess, prev, rec, lastConf, due, again>>

start_video(choice) ==
    /\ Call("start_video", choice, "sv_check")
    /\ UNCHANGED <<pvars, dvars, wvars>>
    /\ UNCHANGED <<lastBox, envs, snap, sess, prev, rec, lastConf, due>>

\* if self.video_thread.running: pause = not pause
pause_video_toggle ==
    /\ cpc = "pv_toggle"
    /\ pause' = IF running THEN ~pause ELSE pause
    /\ Return(<<>>)
    /\ UNCHANGED <<params, model, model_path, mutex, source, running, cap,
                   frame_height, total_count, counted_ids>>
    /\ UNCHANGED <<dvars, wvars>>
    /\ UNCHANGED <<carg>>
    /\ UNCHANGED <<lastBox, envs, snap, sess, prev, rec, lastConf, due, again>>

pause_video ==
    /\ Call("pause_video", <<>>, "pv_toggle")
    /\ UNCHANGED <<pvars, dvars, wvars>>
    /\ UNCHANGED <<lastBox, envs, snap, sess, prev, rec, lastConf, due>>

----------------------------------------------------------------------------
(* App.closeEvent *)

\* run has returned: the thread is finished.  No statement of run leads here
\* (its "while True" has no break and no return).
RunReturned == wpc = "returned"

\* self.video_thread.stop() has returned; self.video_thread.wait(), in two
\* steps: the call (at "ce_wait"), then its return once the thread is
\* finished (at "ce_waiting"); then event.accept()
closeEvent_wait ==
    /\ cpc \in {"ce_wait", "ce_waiting"}
    /\ IF cpc = "ce_wait"
       THEN cpc' = "ce_waiting" /\ UNCHANGED <<cfrom, cout>>
       ELSE RunReturned /\ Return(<<"accepted">>)
    /\ UNCHANGED <<pvars, dvars, wvars>>
    /\ UNCHANGED <<carg>>
    /\ UNCHANGED <<lastBox, envs, snap, sess, prev, rec, lastConf, due, again>>

\* the window is closed: closeEvent calls stop
closeEvent ==
    /\ cpc = "idle"
    /\ cpc' = "st_flags"
    /\ carg' = [op |-> "closeEvent", arg |-> <<>>]
    /\ cfrom' = <<"ce_wait">>
    /\ cout' = <<>>
    /\ again' = FALSE
    /\ UNCHANGED <<pvars, dvars, wvars>>
    /\ UNCHANGED <<lastBox, envs, snap, sess, prev, rec, lastConf, due>>

\* the controller operations, from call to return
ResetCounters ==
    \/ reset_counters
    \/ reset_counters_total
    \/ reset_counters_ids

UpdateParams(name, values) ==
    \/ \E v \in values : update_params(name, v)
    \/ update_params_lock
    \/ update_params_write

Stop ==
    \/ stop
    \/ stop_flags
    \/ stop_cap
    \/ stop_del
    \/ stop_none

LoadModel(paths) ==
    \/ \E p \in paths : load_model(p)
    \/ load_model_del
    \/ load_model_none
    \/ \E loads \in BOOLEAN : load_model_check(loads)
    \/ \E fuses \in BOOLEAN : load_model_fuse(fuses)

\* the steps of set_source (with the reset_counters it calls)
SetSourceSteps ==
    \/ set_source_release
    \/ set_source_source
    \/ \E opens \in BOOLEAN : set_source_open(opens)
    \/ set_source_height
    \/ reset_counters_total
    \/ reset_counters_ids
    \/ set_source_done

\* the steps of closeEvent (with the stop it calls)
CloseEventSteps ==
    \/ stop_flags
    \/ stop_cap
    \/ stop_del
    \/ stop_none
    \/ closeEvent_wait

StartVideo(choices) ==
    \/ \E c \in choices : start_video(c)
    \/ start_video_check
    \/ start_video_running
    \/ start_video_pause
    \/ start_video_wake

PauseVideo ==
    \/ pause_video
    \/ pause_video_toggle

----------------------------------------------------------------------------
(* Inputs *)

\* a box of height 20 px whose bottom edge is at bottom4 (quarter pixels)
DetAt(bottom4, id) == Det(bottom4 - 40, 80, id)

\* bottom at 590 px, track 7: below the count line of a 600 px frame
FrameBelow == Frame(<<DetAt(2360, 7)>>, TRUE)
\* bottom at 580 px: on the count line for detect_bottom = 20
FrameOnLine == Frame(<<DetAt(2320, 7)>>, TRUE)
\* bottom at 590 px and the tracker gave no ids
FrameUntracked == Frame(<<DetAt(2360, 7)>>, FALSE)
\* tracks 7 and 8, both at 590 px
FrameTwo == Frame(<<DetAt(2360, 7), DetAt(2360, 8)>>, TRUE)
\* track 8 at 580.5 px: below the count line by half a pixel
FrameHalf == Frame(<<DetAt(2322, 8)>>, TRUE)
\* nothing detected
FrameEmpty == Frame(<<>>, FALSE)
\* track 9 with a height of -10 px (y_center 600: y = 605, y + h = 595), then
\* track 7 at 590 px
FrameNegative == Frame(<<Det(2400, -40, 9), DetAt(2360, 7)>>, TRUE)

GoodModel == ModelFile("yolo", ".PT", TRUE, 320)
BadModels == {ModelFile("gone", ".pt", FALSE, 640), ModelFile("net", ".onnx", TRUE, 640)}

GoodFile == File("clip", ".MP4", TRUE)
BadFiles == {File("gone", ".avi", FALSE), File("notes", ".txt", TRUE)}

----------------------------------------------------------------------------
(* Specifications *)

InitWith(logs) ==
    /\ params = DefaultParams
    /\ model = None
    /\ model_path = ModelFile("", "", FALSE, 0)
    /\ mutex = "free"
    /\ source = Camera(0)
    /\ running = FALSE
    /\ pause = FALSE
    /\ cap = None
    /\ frame_height = 0
    /\ total_count = 0
    /\ counted_ids = {}
    /\ capPos = 0
    /\ wpc = "lock"
    /\ frame = NoFrame
    /\ kwargs = NoKwargs
    /\ results = <<>>
    /\ idx = 1
    /\ current_count = 0
    /\ acc = 0
    /\ wout = <<>>
    /\ cpc = "idle"
    /\ carg = [op |-> "none", arg |-> <<>>]
    /\ cfrom = <<>>
    /\ cout = <<>>
    /\ lastBox = NoBox
    /\ envs = <<>>
    /\ sess = FreshSession(TRUE, TRUE)
    /\ prev = FreshSession(FALSE, FALSE)
    /\ snap = DefaultParams
    /\ rec = logs
    /\ lastConf = 0
    /\ due = 0
    /\ again = FALSE

(* Loading a model and starting, from the state after construction *)
Init == InitWith(FALSE)

Next ==
    \/ Worker({FrameBelow})
    \/ LoadModel({GoodModel})
    \/ SetSourceSteps
    \/ StartVideo({Camera(0), File("gone", ".avi", FALSE)})

Spec == Init /\ [][Next]_vars

(* Stopping, pausing and starting again *)
NextStop ==
    \/ Worker({FrameBelow})
    \/ LoadModel({GoodModel})
    \/ SetSourceSteps
    \/ StartVideo({Camera(0)})
    \/ PauseVideo
    \/ Stop

SpecStop == Init /\ [][NextStop]_vars

(* The state in which load_model(GoodModel) and then start_video on camera 0
   have returned, the worker having slept in condition.wait meanwhile *)
Started(logs) ==
    /\ params = [DefaultParams EXCEPT !.model_size = GoodModel.imgsz]
    /\ model = GoodModel.stem
    /\ model_path = GoodModel
    /\ mutex = "free"
    /\ source = Camera(0)
    /\ running = TRUE
    /\ pause = FALSE
    /\ cap = "open"
    /\ frame_height = HeightOf(Camera(0))
    /\ total_count = 0
    /\ counted_ids = {}
    /\ capPos = 0
    /\ wpc = "woken"
    /\ frame = NoFrame
    /\ kwargs = NoKwargs
    /\ results = <<>>
    /\ idx = 1
    /\ current_count = 0
    /\ acc = 0
    /\ wout = <<>>
    /\ cpc = "idle"
    /\ carg = [op |-> "start_video", arg |-> Camera(0)]
    /\ cfrom = <<>>
    /\ cout = <<>>
    /\ lastBox = NoBox
    /\ envs = <<>>
    /\ snap = DefaultParams
    /\ sess = FreshSession(TRUE, TRUE)
    /\ prev = FreshSession(FALSE, FALSE)
    /\ rec = logs
    /\ lastConf = 0
    /\ due = 0
    /\ again = FALSE

(* Opening another source under a started worker *)
NextSource ==
    \/ Worker({FrameBelow})
    \/ \E s \in {Camera(1), Camera(2), GoodFile} : set_source(s)
    \/ SetSourceSteps

SpecSource == Started(FALSE) /\ [][NextSource]_vars

(* Counting: every kind of frame, resets and moves of the count line, on a
   started worker *)
NextCount ==
    \/ Worker({FrameBelow, FrameOnLine, FrameUntracked, FrameTwo, FrameHalf, FrameEmpty})
    \/ ResetCounters
    \/ UpdateParams("detect_bottom", {20, 30})

SpecCount == Started(FALSE) /\ [][NextCount]_vars

(* Replaying: the sessions log their frames *)
NextReplay ==
    \/ Worker({FrameBelow, FrameTwo})
    \/ ResetCounters

SpecReplay == Started(TRUE) /\ [][NextReplay]_vars

(* Updating the configuration under a started worker *)
NextParams ==
    \/ Worker({FrameBelow})
    \/ UpdateParams("model_conf", {50, 80})
    \/ UpdateParams("model_nms", {40, 60})
    \/ UpdateParams("detect_bottom", {20, 30})

SpecParams == Started(FALSE) /\ [][NextParams]_vars

(* Loading models, good and bad, under a started worker *)
NextLoad ==
    \/ Worker({FrameBelow})
    \/ LoadModel({GoodModel} \cup BadModels)

SpecLoad == Started(FALSE) /\ [][NextLoad]_vars

\* the worker thread is scheduled again and again (it is a thread of its own)
SpecLoadFair == SpecLoad /\ WF_vars(Worker({FrameBelow}))

(* Updating the configuration under names it has and names it has not *)
NextKeys ==
    \/ Worker({FrameBelow})
    \/ UpdateParams("model_conf", {50, 80})
    \/ UpdateParams("min_area", {60})
    \/ UpdateParams("speed", {5})

SpecKeys == Started(FALSE) /\ [][NextKeys]_vars

(* Pausing and resuming a started worker *)
NextPause ==
    \/ Worker({FrameBelow, FrameTwo})
    \/ PauseVideo

SpecPause == Started(FALSE) /\ [][NextPause]_vars

(* Counting frames that hold a box of negative height *)
NextBoxes ==
    \/ Worker({FrameBelow, FrameNegative})
    \/ ResetCounters

SpecBoxes == Started(FALSE) /\ [][NextBoxes]_vars

(* Starting, the worker being scheduled again and again; the frames hold
   nothing to count *)
NextWake ==
    \/ Worker({FrameOnLine})
    \/ LoadModel({GoodModel})
    \/ SetSourceSteps
    \/ StartVideo({Camera(0)})

SpecWake == Init /\ [][NextWake]_vars /\ WF_vars(Worker({FrameOnLine}))

(* Closing the window on a started worker, running or paused; both threads
   are scheduled again and again, and a thread that asks for the mutex gets
   it if it is free again and again *)
NextClose ==
    \/ Worker({FrameOnLine})
    \/ PauseVideo
    \/ closeEvent
    \/ CloseEventSteps

SpecClose ==
    /\ Started(FALSE)
    /\ [][NextClose]_vars
    /\ WF_vars(Worker({FrameOnLine}))
    /\ SF_vars(CloseEventSteps)

----------------------------------------------------------------------------
(* Properties *)

Min(a, b) == IF a <= b THEN a ELSE b

RECURSIVE SumCounts(_)
SumCounts(log) == IF log = <<>> THEN 0 ELSE log[1].count + SumCounts(Tail(log))

\* the last box seen lies strictly below / on or below the count line read
\* with it (bottom4 is the bottom edge y + h as the detector gave it)
BoxBelowLine == lastBox.bottom4 > 4 * lastBox.line
BoxOnOrBelowLine == lastBox.bottom4 >= 4 * lastBox.line

\* C1: between two reset_counters, a track id is counted at most once: no id
\* has been counted twice in the session, and the loop of process_frame adds
\* nothing for a box whose id is already in counted_ids.
C1_CountedAtMostOnce ==
    /\ \A e \in sess.times : e[2] <= 1
    /\ (lastBox.seen /\ lastBox.was) => ~lastBox.counted

\* track 7 is seen again below the count line (frame_height 600,
\* detect_bottom 20, bottom 590) after it was counted: cumulative count 1
C1_Witness ==
    /\ lastBox.seen /\ lastBox.was /\ ~lastBox.counted
    /\ lastBox.id = 7 /\ lastBox.bottom4 = 2360 /\ lastBox.line = 580
    /\ sess.clean /\ sess.n >= 1 /\ total_count = 1
    /\ TimesCounted(sess, 7) = 1

\* C2: in a session that began with a reset_counters the worker did not
\* overlap, total_count is the sum of the per-frame counts accumulated since,
\* and no step but the "total_count = 0" of reset_counters lowers total_count.
C2_TotalIsSumOfCounts ==
    /\ [](sess.clean => total_count = sess.sum)
    /\ [][total_count' >= total_count \/ cpc = "rc_total"]_vars

\* two frames accumulated, two ids counted
C2_Witness ==
    /\ sess.clean /\ sess.n >= 2 /\ total_count = 2 /\ sess.sum = 2
    /\ wpc = "emit"

\* C3 (as claimed): a box with a valid id not yet counted whose bottom edge is
\* on or below the count line frame_height - detect_bottom is counted.
C3_BoundaryInclusive ==
    (lastBox.seen /\ lastBox.id # Untracked /\ ~lastBox.was /\ BoxOnOrBelowLine)
        => lastBox.counted

\* C4: a box without a track id (-1) is never counted, wherever it lies, and
\* -1 never enters counted_ids.
C4_UntrackedNeverCounted ==
    /\ Untracked \notin counted_ids
    /\ TimesCounted(sess, Untracked) = 0
    /\ (lastBox.seen /\ lastBox.id = Untracked) => ~lastBox.counted

\* an untracked box below the count line went through the loop
C4_Witness ==
    /\ lastBox.seen /\ lastBox.id = Untracked /\ BoxBelowLine
    /\ ~lastBox.counted
    /\ wpc = "acc_load" /\ current_count = 0

\* two logged frames gave process_frame the same detections and the same
\* frame_height and detect_bottom
SameInputs(a, b) == a.results = b.results /\ a.envs = b.envs

SameInputsUpTo(i) == \A j \in 1..i : SameInputs(prev.log[j], sess.log[j])

\* C5: when a session and the session before it both began with a
\* reset_counters the worker did not overlap, then as long as the frames of the
\* later one repeat those of the earlier one, the per-frame counts repeat too,
\* and after the same frames total_count is what it was in the earlier one.
C5_ReplayRepeatsCounts ==
    (prev.clean /\ sess.clean) =>
        /\ \A i \in 1..Min(Len(prev.log), Len(sess.log)) :
              SameInputsUpTo(i) => sess.log[i].count = prev.log[i].count
        /\ ( /\ Len(sess.log) = Len(prev.log)
             /\ SameInputsUpTo(Len(sess.log))
             /\ sess.sum = SumCounts(sess.log) )
           => total_count = SumCounts(prev.log)

\* two frames replayed after a reset_counters, something counted in each run
C5_Witness ==
    /\ prev.clean /\ sess.clean
    /\ Len(prev.log) = 2 /\ Len(sess.log) = 2
    /\ SameInputsUpTo(2)
    /\ prev.log[1].count >= 1 /\ prev.log[2].count >= 1
    /\ total_count = SumCounts(prev.log)

\* set_source is running on a camera index that was not found at start-up
InvalidCameraCall ==
    /\ carg.op = "set_source"
    /\ carg.arg.kind = "camera"
    /\ carg.arg.index \notin available_cameras

\* C6 (as claimed): no step of set_source called with an unavailable camera
\* index touches the capture handle, source, frame_height or the counters, and
\* the call ends reporting an error.
C6_InvalidCameraLeavesSource ==
    [][(InvalidCameraCall /\ cpc # "idle" /\ cpc' # cpc) =>
           /\ cap' = cap
           /\ source' = source
           /\ frame_height' = frame_height
           /\ total_count' = total_count
           /\ counted_ids' = counted_ids
           /\ (cpc' = "idle" => cout' = <<"error">>)]_vars

\* C7: the frame the worker read after update_params('model_conf', v) had
\* returned (no later update of model_conf written since) goes to model.track
\* with conf = v.
C7_ConfAppliedToNextFrame ==
    (wpc \in {"nms", "size", "track"} /\ due # 0) => kwargs.conf = due

\* model_conf was moved to 0.8 before the frame was read, and the call is
\* about to be made with it
C7_Witness ==
    /\ wpc = "track" /\ due = 80 /\ kwargs.conf = 80
    /\ cpc = "idle"

\* C8 (as claimed): everything a frame uses of the configuration is what
\* params held when the frame was read.
C8_OneSnapshotPerFrame ==
    /\ wpc = "track" =>
          /\ kwargs.conf = snap.model_conf
          /\ kwargs.iou = snap.model_nms
          /\ kwargs.imgsz = snap.model_size
    /\ lastBox.seen => lastBox.line = frame_height - snap.detect_bottom

Stopped == ~running /\ ~pause /\ cap # "open" /\ model = None

\* C9: when stop has returned the worker is stopped (running and pause False,
\* capture released, model None) and nothing was reported; a stop called
\* right after a stop changes none of the worker's fields.
C9_StopIdempotent ==
    /\ []((cpc = "idle" /\ carg.op = "stop") => (Stopped /\ cout = <<>>))
    /\ [][(carg.op = "stop" /\ again /\ cpc # "idle" /\ cpc' # cpc) =>
              UNCHANGED <<params, model, model_path, source, running, pause,
                          cap, frame_height, total_count, counted_ids, capPos>>]_vars

\* a second stop in a row has returned, on a worker that had a model loaded
\* and a source opened
C9_Witness ==
    /\ cpc = "idle" /\ carg.op = "stop" /\ again
    /\ model_path = GoodModel /\ cap = "closed"

\* C10 (as claimed): start_video sets running only with a model loaded and
\* the source open.
C10_StartNeedsModelAndSource ==
    cpc = "sv_pause" => (model \notin {None, "deleted"} /\ cap = "open")

\* number of elements of seq that are in S
Occurrences(seq, S) == Cardinality({i \in 1..Len(seq) : seq[i] \in S})

\* load_model is running on a path that does not exist or has another
\* extension than .pt / .pth
InvalidModelCall ==
    /\ carg.op = "load_model"
    /\ (~carg.arg.exists \/ Lower(carg.arg.ext) \notin ModelSuffixes)

\* C11 (as claimed): no step of a load_model call on a missing file or an
\* unsupported extension changes model, model_path, params, running or pause.
C11_FailedLoadKeepsState ==
    [][(InvalidModelCall /\ cpc # "idle" /\ cpc' # cpc) =>
           UNCHANGED <<model, model_path, params, running, pause>>]_vars

ModelLoadedSignals == {"model_loaded(True)", "model_loaded(False)"}

\* C12 (as claimed): when load_model has returned it has published exactly one
\* model_loaded, True exactly when the model reference is not None.
C12_OneTruthfulNotification ==
    (cpc = "idle" /\ carg.op = "load_model") =>
        /\ Occurrences(cout, ModelLoadedSignals) = 1
        /\ Occurrences(cout, {"model_loaded(True)"}) = 1 <=> model # None

ErrorReported == Occurrences(wout, {"error"}) >= 1

\* C13: an exception in an iteration of run is reported once, never with the
\* mutex held by the worker, and (the worker being scheduled, running with
\* its source open) a frame is read in a later iteration.
C13_ErrorsDoNotStopLoop ==
    /\ [](Occurrences(wout, {"error"}) <= 1)
    /\ [](ErrorReported => mutex # "worker")
    /\ ErrorReported ~> (wpc = "detect" /\ wout = <<>> /\ frame = FrameBelow)

\* self.model was read while load_model had deleted it: the AttributeError
\* has been reported and the loop is at the top of its next iteration
C13_Witness ==
    /\ wpc = "lock" /\ wout = <<"error">> /\ mutex = "free"
    /\ model = "deleted" /\ running /\ cap = "open"

\* C14: the write of update_params leaves params as it is and publishes
\* nothing when the name is not one of its keys, and otherwise changes the
\* entry of that name and no other; params never gets a new key.
C14_UnknownKeyIgnored ==
    /\ [](DOMAIN params = ParamKeys)
    /\ [][(carg.op = "update_params" /\ cpc = "up_write" /\ cpc' # cpc) =>
              IF carg.arg[1] \in ParamKeys
              THEN \A k \in ParamKeys :
                       params'[k] = IF k = carg.arg[1] THEN carg.arg[2] ELSE params[k]
              ELSE params' = params /\ cout' = <<>>]_vars

\* update_params('speed', 5) has returned, after model_conf had been moved
C14_Witness ==
    /\ cpc = "idle" /\ carg.op = "update_params" /\ carg.arg = <<"speed", 5>>
    /\ cout = <<>>
    /\ params = [DefaultParams EXCEPT !.model_size = 320, !.model_conf = 80]

\* C15 (as claimed): reset_counters returns with total_count = 0 and
\* counted_ids empty, and none of its steps changes running, pause, params,
\* model, the capture handle or frame_height.
C15_ResetLeavesZero ==
    [][(carg.op = "reset_counters" /\ cpc \in {"rc_total", "rc_ids"} /\ cpc' # cpc) =>
           /\ UNCHANGED <<running, pause, params, model, cap, frame_height>>
           /\ cpc' = "idle" => (total_count' = 0 /\ counted_ids' = {})]_vars

\* C16 (as claimed): no cap.read delivers a frame while pause is True, and
\* the toggle of pause_video leaves the capture handle, the model and the
\* counters alone.
C16_PausedReadsNothing ==
    [][/\ (wpc = "read" /\ wpc' = "detect") => ~pause
       /\ (cpc = "pv_toggle" /\ cpc' # cpc) =>
              UNCHANGED <<cap, model, total_count, counted_ids>>]_vars

\* C17 (as claimed): the iteration of process_frame's loop on a box of
\* negative height counts nothing and adds nothing to counted_ids, and goes
\* on to the next box.
C17_MalformedBoxSkipped ==
    [][(wpc = "box" /\ results[idx].box.h < 0) =>
           /\ UNCHANGED <<current_count, counted_ids>>
           /\ wpc' = IF idx < Len(results) THEN "box" ELSE "acc_load"]_vars

\* C18 (as claimed): an iteration of run whose cap.read fails rewinds the
\* capture exactly when source is a file path, publishes finished_signal once,
\* processes no frame and leaves total_count and counted_ids unchanged.
C18_RewindOnlyFiles ==
    [][(wpc = "read" /\ wpc' = "lock") =>
           /\ Occurrences(wout', {"rewind"}) = (IF source.kind = "file" THEN 1 ELSE 0)
           /\ Occurrences(wout', {"finished"}) = 1
           /\ UNCHANGED <<frame, results, current_count, total_count, counted_ids>>]_vars

\* start_video has returned, a model loaded and the source open
StartCompleted ==
    /\ cpc = "idle" /\ carg.op = "start_video"
    /\ running /\ ~pause /\ cap = "open" /\ model \notin {None, "deleted"}

\* C19 (as claimed): once start_video has completed with a model loaded and
\* the source open, and the controller does nothing more, the worker
\* eventually reads a frame.
C19_NoLostWakeup ==
    [](StartCompleted => <>(wpc = "detect" \/ ~[](cpc = "idle")))

\* the worker is at a statement that reads or writes params (conf, nms, size,
\* box), pause (gate), counted_ids (box) or total_count (acc_load, acc_store,
\* emit) ...
WorkerAtSharedAccess ==
    wpc \in {"gate", "conf", "nms", "size", "box", "acc_load", "acc_store", "emit"}

\* ... and executes it
WorkerAccesses == WorkerAtSharedAccess /\ <<wpc, idx>>' # <<wpc, idx>>

\* C20 (as claimed): the worker makes no access to params, pause, total_count
\* or counted_ids while the controller holds the mutex, that is, inside
\* reset_counters, update_params or stop.
C20_AccessesUnderMutex ==
    [][WorkerAccesses => mutex # "controller"]_vars

\* cap.read() delivers a frame to the worker
FrameObtained == wpc = "read" /\ wpc' = "detect"

\* stop has set running to False and not yet released the capture
StopInProgress == carg.op = "stop" /\ cpc = "st_cap"

\* a start_video has been called and has not returned
StartInProgress == carg.op = "start_video" /\ cpc # "idle"

\* C21: from the return of stop to the next call of start_video the worker
\* obtains no frame from the capture (and so begins no inference: model.track
\* is only called on a frame just read); with running False a frame is only
\* obtained inside stop, before the capture is released, or inside a start.
C21_NoFrameAfterStop ==
    [][FrameObtained => (running \/ StopInProgress \/ StartInProgress)]_vars

\* stop returned while the worker was past its test of pause and cap: its
\* cap.read() has failed on the released capture
C21_Witness ==
    /\ cpc = "idle" /\ carg.op = "stop"
    /\ ~running /\ cap = "closed" /\ model = None
    /\ wpc = "lock" /\ wout = <<"finished">>

\* C22 (as claimed): whenever the worker is between two frames (and the
\* controller outside reset_counters), total_count is the number of
\* identifiers in counted_ids.
C22_TotalIsNumberOfIds ==
    (~MidFrame /\ cpc = "idle") => total_count = Cardinality(counted_ids)

\* C23 (as claimed): a closeEvent that has been called eventually returns:
\* its stop returns, the worker's run exits and wait returns.
C23_ShutdownCompletes ==
    (carg.op = "closeEvent" /\ cpc # "idle") ~> (cpc = "idle")

====
